---- MODULE Spec2Model ----
(***************************************************************************)
(* A model of crawling_basic_code.py: the SingletonMeta registry and the   *)
(* scraper facades built through it, HttpRequestHandler's fetch with its   *)
(* verify=False retry, SessionRequestHandler's with-scope and download,    *)
(* PostgresHandler / save_data_to_db, JsonHandler, and the two get_data    *)
(* extraction variants.                                                    *)
(***************************************************************************)
EXTENDS Integers, Sequences, FiniteSets, TLC

VARIABLES
    instances,   \* SingletonMeta._instances: class -> object id (0: no entry)
    objs,        \* every facade object allocated so far, by object id
    thr,         \* per thread: where it is inside SingletonMeta.__call__
    active,      \* the threads that issue construction requests
    sess,        \* SessionRequestHandler: its requests.Session and with-scope
    files,       \* the file system: path -> content
    dl,          \* the last download_file call, of either request handler
    sink,        \* PostgresHandler: its cursor and connection
    rows,        \* the rows committed to the database, in commit order
    save,        \* the last BaseScraper.save_data_to_db call
    json_data,   \* JsonHandler.json_data
    ingest,      \* the last JsonHandler.data_to_json call
    got,         \* the last JsonHandler.get_data_from_json_key call
    scraper,     \* the scraper whose get_data is called: class, construction, page
    tree,        \* the parsed document of that scraper (self.soup / self.tree)
    query,       \* the selectors / xpaths argument of the get_data call
    result,      \* the last get_data call
    lookup,      \* the last BaseScraper.get_data_from_keys call
    life         \* the calls made on facade objects after their construction

facadeVars == <<instances, objs, thr, active>>

sessionVars == <<sess, files, dl>>

sinkVars == <<sink, rows, save>>

storeVars == <<json_data, ingest, got>>

extractVars == <<scraper, tree, query, result>>

keysVars == <<lookup>>

lifeVars == <<life>>

vars ==
    <<facadeVars, sessionVars, sinkVars, storeVars, extractVars, keysVars, lifeVars>>

notFacade ==
    <<sessionVars, sinkVars, storeVars, extractVars, keysVars, lifeVars>>

notSession ==
    <<facadeVars, sinkVars, storeVars, extractVars, keysVars, lifeVars>>

notSink ==
    <<facadeVars, sessionVars, storeVars, extractVars, keysVars, lifeVars>>

notStore ==
    <<facadeVars, sessionVars, sinkVars, extractVars, keysVars, lifeVars>>

notExtract ==
    <<facadeVars, sessionVars, sinkVars, storeVars, keysVars, lifeVars>>

----------------------------------------------------------------------------
(* Bounds *)

MaxRequests == 2      \* construction requests issued in one run, over all threads

----------------------------------------------------------------------------
(* Facade classes, configurations *)

Threads == {1, 2}

Classes == {"CloudBs4Scraper", "Bs4Scraper", "LxmlScraper", "OpenApiHandler"}

URLs == {"urlA", "urlB"}

NoDoc == "NoDoc"

NoObj == 0

\* requests.get(...) followed by raise_for_status(): what one attempt does
Outcomes == {"ok", "ConnectionError", "HTTPError"}

\* except requests.RequestException: both failures of an attempt are caught
IsRequestException(o) == o \in {"ConnectionError", "HTTPError"}

IdleThread ==
    [pc |-> "idle", cls |-> "none", url |-> "none", obj |-> NoObj,
     calls |-> <<>>, had |-> {}, ret |-> NoObj, exc |-> "none", nreq |-> 0,
     db |-> FALSE]

\* the objects whose __init__ ran to its end for class c and url u
Built(c, u) ==
    {i \in DOMAIN objs : objs[i].cls = c /\ objs[i].url = u /\ objs[i].ready}

\* the construction requests issued so far
Requests == thr[1].nreq + thr[2].nreq

----------------------------------------------------------------------------
(* SingletonMeta.__call__ *)

MustConstruct_Always(reg, c) == TRUE

\* line 21: "if cls not in cls._instances"
MustConstruct(reg, c) == reg[c] = NoObj

\* line 21, and the allocation of the new object by super().__call__; db
\* tells whether the request gives dbname, user, password, host and port
Call(t, c, u, db) ==
    /\ t \in active
    /\ thr[t].pc \in {"idle", "returned", "raised"}
    /\ Requests < MaxRequests
    /\ IF MustConstruct(instances, c)
       THEN /\ objs' = Append(objs, [cls |-> c, url |-> u, response |-> NoDoc,
                                      parsed |-> FALSE, ready |-> FALSE,
                                      db |-> "none"])
            /\ thr' = [thr EXCEPT ![t] =
                        [pc |-> "get1", cls |-> c, url |-> u, obj |-> Len(objs) + 1,
                         calls |-> <<>>, had |-> Built(c, u), ret |-> NoObj,
                         exc |-> "none", nreq |-> thr[t].nreq + 1, db |-> db]]
       ELSE /\ objs' = objs
            /\ thr' = [thr EXCEPT ![t] =
                        [pc |-> "ret", cls |-> c, url |-> u, obj |-> NoObj,
                         calls |-> <<>>, had |-> Built(c, u), ret |-> NoObj,
                         exc |-> "none", nreq |-> thr[t].nreq + 1, db |-> db]]
    /\ UNCHANGED <<instances, active, notFacade>>

----------------------------------------------------------------------------
(* HttpRequestHandler._get_web_page *)

VerifyOf_AlwaysOn(n) == TRUE

\* the verify argument of the n-th transport call of one fetch (lines 42, 45)
VerifyOf(n) == n = 1

\* line 42-43: the first GET, certificate validation on
Get1(t, o) ==
    /\ thr[t].pc = "get1"
    /\ thr' = [thr EXCEPT
                 ![t].calls = Append(@, [verify |-> VerifyOf(1), outcome |-> o]),
                 ![t].pc = IF IsRequestException(o) THEN "get2" ELSE "init"]
    /\ objs' = IF o = "ok"
               THEN [objs EXCEPT ![thr[t].obj].response = thr[t].url]
               ELSE objs
    /\ UNCHANGED <<instances, active, notFacade>>

\* line 45-46: the retry, certificate validation off; its failure propagates
Get2(t, o) ==
    /\ thr[t].pc = "get2"
    /\ thr' = [thr EXCEPT
                 ![t].calls = Append(@, [verify |-> VerifyOf(2), outcome |-> o]),
                 ![t].pc = IF o = "ok" THEN "init" ELSE "raised",
                 ![t].exc = IF o = "ok" THEN "none" ELSE o]
    /\ objs' = IF o = "ok"
               THEN [objs EXCEPT ![thr[t].obj].response = thr[t].url]
               ELSE objs
    /\ UNCHANGED <<instances, active, notFacade>>

----------------------------------------------------------------------------
(* The rest of __init__, by class *)

\* CloudBs4Scraper.__init__ reads self.url (line 213), LxmlScraper.__init__
\* reads self.http_request.content (line 249): neither attribute is ever set
InitRaises(c) == c \in {"CloudBs4Scraper", "LxmlScraper"}

\* Bs4Scraper.__init__ parses the response at construction (line 230)
ParsesEagerly(c) == c = "Bs4Scraper"

\* psycopg2.connect (line 129)
ConnectOutcomes == {"ok", "OperationalError"}

\* lines 178-179 / 274-275: a PostgresHandler is made only when all of
\* dbname, user, password, host and port are given
InitRest(t, conn) ==
    /\ thr[t].pc = "init"
    /\ ~thr[t].db => conn = "ok"
    /\ IF conn # "ok"
       THEN /\ thr' = [thr EXCEPT ![t].pc = "raised", ![t].exc = conn]
            /\ objs' = objs
       ELSE IF InitRaises(thr[t].cls)
       THEN /\ thr' = [thr EXCEPT ![t].pc = "raised", ![t].exc = "AttributeError"]
            /\ objs' = [objs EXCEPT ![thr[t].obj].db =
                                        IF thr[t].db THEN "open" ELSE "none"]
       ELSE /\ thr' = [thr EXCEPT ![t].pc = "store"]
            /\ objs' = [objs EXCEPT ![thr[t].obj].parsed = ParsesEagerly(thr[t].cls),
                                    ![thr[t].obj].ready = TRUE,
                                    ![thr[t].obj].db =
                                        IF thr[t].db THEN "open" ELSE "none"]
    /\ UNCHANGED <<instances, active, notFacade>>

Store_BeforeInit(t) ==
    /\ thr[t].pc \in {"get1", "store"}
    /\ instances' = [instances EXCEPT ![thr[t].cls] = thr[t].obj]
    /\ thr' = [thr EXCEPT ![t].pc = IF @ = "store" THEN "ret" ELSE @]
    /\ UNCHANGED <<objs, active, notFacade>>

\* line 22: cls._instances[cls] = <the new object>
Store(t) ==
    /\ thr[t].pc = "store"
    /\ instances' = [instances EXCEPT ![thr[t].cls] = thr[t].obj]
    /\ thr' = [thr EXCEPT ![t].pc = "ret"]
    /\ UNCHANGED <<objs, active, notFacade>>

\* line 23: return cls._instances[cls]
Return(t) ==
    /\ thr[t].pc = "ret"
    /\ thr' = [thr EXCEPT ![t].pc = "returned", ![t].ret = instances[thr[t].cls]]
    /\ UNCHANGED <<instances, objs, active, notFacade>>

----------------------------------------------------------------------------
(* SessionRequestHandler *)

MaxDownloads == 2     \* download_file calls made on one SessionRequestHandler

Paths == {"p1", "p2"}

FileURLs == {"f1", "f2"}

NoFile == "NoFile"

Truncated == "Truncated"

\* session.post / session.get followed by raise_for_status()
DownloadOutcomes == {"ok", "ConnectionError", "HTTPError", "OpenFails", "WriteFails"}

NoDownload ==
    [handler |-> "none", url |-> "none", path |-> "none", outcome |-> "none",
     before |-> NoFile, reported |-> FALSE, raised |-> "none"]

\* line 120: "except RequestException": what download_file catches
DownloadCatches(o) == o \in {"ConnectionError", "HTTPError"}

\* lines 63-64 and 117-118: open(save_path, 'wb') creates or truncates the
\* file, then file.write stores the response content
FileAfter(old, u, o) ==
    CASE o = "ok" -> u
      [] o = "WriteFails" -> Truncated
      [] OTHER -> old

\* __enter__ (lines 90-92): the login POST; a failure propagates out of the
\* with statement before the scope is entered, so __exit__ is not called
Enter(o) ==
    /\ sess.pc = "new"
    /\ sess' = IF o = "ok"
               THEN [sess EXCEPT !.pc = "body", !.loggedIn = TRUE]
               ELSE [sess EXCEPT !.pc = "enterFailed", !.exc = o]
    /\ UNCHANGED <<files, dl, notSession>>

\* download_file (lines 113-121). The method reads only self.session and
\* self.headers, both set by __init__, so it can be called before the scope
\* is entered, inside it, and after it was left or its login was rejected;
\* an OSError raised inside the scope leaves the scope, one raised outside
\* it goes to the caller
DownloadFile(u, p, o) ==
    /\ sess.pc \in {"new", "body", "enterFailed", "exited"}
    /\ sess.ndl < MaxDownloads
    /\ files' = [files EXCEPT ![p] = FileAfter(@, u, o)]
    /\ dl' = [handler |-> "session", url |-> u, path |-> p, outcome |-> o,
              before |-> files[p], reported |-> DownloadCatches(o),
              raised |-> IF o = "ok" \/ DownloadCatches(o) THEN "none" ELSE "OSError"]
    /\ sess' = IF o = "ok" \/ DownloadCatches(o) \/ sess.pc # "body"
               THEN [sess EXCEPT !.ndl = @ + 1]
               ELSE [sess EXCEPT !.ndl = @ + 1, !.pc = "raising", !.exc = "OSError"]
    /\ UNCHANGED notSession

\* code inside the with-scope raises
BodyRaises ==
    /\ sess.pc = "body"
    /\ sess' = [sess EXCEPT !.pc = "raising", !.exc = "BodyError"]
    /\ UNCHANGED <<files, dl, notSession>>

SessionExit_SkipOnError(s) ==
    [s EXCEPT !.pc = "exited", !.open = (s.exc # "none")]

\* __exit__ (line 100): session.close(); returns None, so an exception that
\* left the scope keeps propagating
SessionExit(s) == [s EXCEPT !.pc = "exited", !.open = FALSE]

Exit ==
    /\ sess.pc \in {"body", "raising"}
    /\ sess' = SessionExit(sess)
    /\ UNCHANGED <<files, dl, notSession>>

InitSession ==
    /\ sess = [pc |-> "new", open |-> TRUE, loggedIn |-> FALSE, exc |-> "none",
               ndl |-> 0]
    /\ files = [p \in Paths |-> NoFile]
    /\ dl = NoDownload

NextSession ==
    \/ \E o \in Outcomes : Enter(o)
    \/ \E u \in FileURLs, p \in Paths, o \in DownloadOutcomes : DownloadFile(u, p, o)
    \/ BodyRaises
    \/ Exit

----------------------------------------------------------------------------
(* PostgresHandler and BaseScraper.save_data_to_db *)

MaxOps == 2           \* calls made on one PostgresHandler

MaxData == 2          \* length of the data given to save_data_to_db

DbValues == {"x", "y"}

Tables == {"t"}

DataSeqs == UNION {[1..n -> DbValues] : n \in 0..MaxData}

NoSave ==
    [data |-> <<>>, fails |-> {}, attempted |-> 0, failed |-> FALSE,
     raised |-> FALSE, reported |-> FALSE, before |-> 0]

ExecFails_IgnoreClosed(s, fails, i) == i \in fails

\* execute_query (lines 134-135): cursor.execute raises on a closed cursor,
\* or when the database rejects the statement
ExecFails(s, fails, i) == ~s.cursorOpen \/ i \in fails

\* the loop of save_data_to_db (lines 200-202): one execute_query per item,
\* each committed on its own; an exception leaves the loop and the method
RECURSIVE WriteLoop(_, _, _, _, _, _)
WriteLoop(s, table, data, fails, i, acc) ==
    IF i > Len(data)
    THEN [rows |-> acc, attempted |-> Len(data), raised |-> FALSE]
    ELSE IF ExecFails(s, fails, i)
         THEN [rows |-> acc, attempted |-> i, raised |-> TRUE]
         ELSE WriteLoop(s, table, data, fails, i + 1,
                        Append(acc, [table |-> table, data |-> data[i]]))

\* close (lines 139-142)
Closed(s) == [s EXCEPT !.cursorOpen = FALSE, !.connOpen = FALSE]

\* save_data_to_db (lines 200-203): the loop, then db_handler.close()
SaveDataToDb(data, table, fails) ==
    /\ sink.ops < MaxOps
    /\ fails \subseteq DOMAIN data
    /\ LET r == WriteLoop(sink, table, data, fails, 1, <<>>) IN
       /\ rows' = rows \o r.rows
       /\ sink' = IF r.raised
                  THEN [sink EXCEPT !.ops = @ + 1]
                  ELSE [Closed(sink) EXCEPT !.ops = @ + 1]
       /\ save' = [data |-> data, fails |-> fails, attempted |-> r.attempted,
                   failed |-> r.raised, raised |-> r.raised, reported |-> FALSE,
                   before |-> Len(rows)]
    /\ UNCHANGED notSink

\* PostgresHandler.execute_query called directly
ExecuteQuery(table, v, fail) ==
    /\ sink.ops < MaxOps
    /\ rows' = IF ExecFails(sink, IF fail THEN {1} ELSE {}, 1)
               THEN rows
               ELSE Append(rows, [table |-> table, data |-> v])
    /\ sink' = [sink EXCEPT !.ops = @ + 1]
    /\ UNCHANGED <<save, notSink>>

\* PostgresHandler.close called directly
Close ==
    /\ sink.ops < MaxOps
    /\ sink' = [Closed(sink) EXCEPT !.ops = @ + 1]
    /\ UNCHANGED <<rows, save, notSink>>

InitSink ==
    /\ sink = [cursorOpen |-> TRUE, connOpen |-> TRUE, ops |-> 0]
    /\ rows = <<>>
    /\ save = NoSave

NextSink ==
    \/ \E d \in DataSeqs, tb \in Tables, f \in SUBSET (1..MaxData) :
          SaveDataToDb(d, tb, f)
    \/ \E tb \in Tables, v \in DbValues, f \in BOOLEAN : ExecuteQuery(tb, v, f)
    \/ Close

----------------------------------------------------------------------------
(* JsonHandler *)

MaxIngests == 2       \* data_to_json calls on one JsonHandler

MaxLen == 3           \* length of the data given to data_to_json

StoreValues == {"a", "b"}

None == "None"

IngestSeqs == UNION {[1..n -> StoreValues] : n \in 0..MaxLen}

ProbeKeys == {"key_0", "key_1", "key_2", "key_3", "key_99", "name"}

KeyOf_OneBased(idx) == "key_" \o ToString(idx + 1)

\* line 160: f'key_{idx}'
KeyOf(idx) == "key_" \o ToString(idx)

\* data_to_json (lines 159-160): for idx, item in enumerate(data):
\* json_data[f'key_{idx}'] = item
DataToJson(jd, data) ==
    LET new == {KeyOf(i - 1) : i \in 1..Len(data)} IN
    [k \in (DOMAIN jd) \cup new |->
        IF k \in new
        THEN data[CHOOSE i \in 1..Len(data) : KeyOf(i - 1) = k]
        ELSE jd[k]]

\* get_data_from_json_key (line 168): json_data.get(key, None)
GetDataFromJsonKey(jd, key) == IF key \in DOMAIN jd THEN jd[key] ELSE None

Ingest(data) ==
    /\ ingest.n < MaxIngests
    /\ json_data' = DataToJson(json_data, data)
    /\ ingest' = [last |-> data, n |-> ingest.n + 1]
    /\ got' = [key |-> "none", val |-> None]
    /\ UNCHANGED notStore

Get(key) ==
    /\ got' = [key |-> key, val |-> GetDataFromJsonKey(json_data, key)]
    /\ UNCHANGED <<json_data, ingest, notStore>>

InitStore ==
    /\ json_data = [k \in {} |-> None]
    /\ ingest = [last |-> <<>>, n |-> 0]
    /\ got = [key |-> "none", val |-> None]

NextStore ==
    \/ \E d \in IngestSeqs : Ingest(d)
    \/ \E k \in ProbeKeys : Get(k)

----------------------------------------------------------------------------
(* BaseScraper.get_data_from_keys *)

MaxNested == 2        \* length of the data of nested values given to data_to_json

MaxPath == 3          \* number of keys given to get_data_from_keys

NoMap == [k \in {} |-> 0]

\* a stored value that is no mapping (a str)
Leaf(str) == [kind |-> "str", str |-> str, map |-> NoMap]

\* a stored value that is a mapping (a dict)
Dict(map) == [kind |-> "dict", str |-> "", map |-> map]

\* Python's None
NoneValue == [kind |-> "None", str |-> "", map |-> NoMap]

\* items as an API answers them: a string, {"name": "a"}, {"name": {"id": "b"}}
NestedValues ==
    {Leaf("a"),
     Dict([k \in {"name"} |-> Leaf("a")]),
     Dict([k \in {"name"} |-> Dict([j \in {"id"} |-> Leaf("b")])])}

NestedSeqs == UNION {[1..n -> NestedValues] : n \in 0..MaxNested}

PathKeys == {"key_0", "key_1", "name", "id"}

KeyPaths == UNION {[1..n -> PathKeys] : n \in 0..MaxPath}

\* get_data_from_keys (lines 185-190): data = data.get(key) for each key in
\* turn, returning None at the first None; .get exists on a dict only, so on
\* any other value the call raises AttributeError
RECURSIVE GetDataFromKeys(_, _)
GetDataFromKeys(data, keys) ==
    IF keys = <<>>
    THEN [raised |-> FALSE, val |-> data]
    ELSE IF data.kind # "dict"
         THEN [raised |-> TRUE, val |-> NoneValue]
         ELSE LET next == IF Head(keys) \in DOMAIN data.map
                          THEN data.map[Head(keys)]
                          ELSE NoneValue
              IN IF next = NoneValue
                 THEN [raised |-> FALSE, val |-> NoneValue]
                 ELSE GetDataFromKeys(next, Tail(keys))

NoLookup == [done |-> FALSE, keys |-> <<>>, raised |-> FALSE, val |-> NoneValue]

GetKeys(keys) ==
    /\ LET r == GetDataFromKeys(Dict(json_data), keys) IN
       lookup' = [done |-> TRUE, keys |-> keys, raised |-> r.raised, val |-> r.val]
    /\ UNCHANGED <<facadeVars, sessionVars, sinkVars, storeVars, extractVars, lifeVars>>

InitKeys == lookup = NoLookup

NextKeys ==
    \/ \E d \in NestedSeqs : Ingest(d)
    \/ \E ks \in KeyPaths : GetKeys(ks)

----------------------------------------------------------------------------
(* Bs4Scraper.get_data and LxmlScraper.get_data *)

MaxNodes == 2         \* elements in the parsed document

MaxQueries == 2       \* length of a list of selectors / xpaths

Tags == {"p", "a"}

NoText == "NoText"

NoAttr == "NoAttr"

\* an element of the parsed document: its tag, its text, its href attribute
Nodes == [tag : Tags, text : {"t", NoText}, href : {"h", NoAttr}]

Docs == UNION {[1..n -> Nodes] : n \in 0..MaxNodes}

Selectors == {"p", "a", "h1"}

XPaths == {"//p", "//a", "//h1", "//a/@href", "//p/text()"}

NoQuery == [isList |-> FALSE, str |-> "none", items |-> <<>>]

\* what get_data is given: one string, or a list of strings
QueriesOver(S) ==
    {[isList |-> FALSE, str |-> q, items |-> <<>>] : q \in S}
    \cup {[isList |-> TRUE, str |-> "none", items |-> qs] :
             qs \in UNION {[1..n -> S] : n \in 0..MaxQueries}}

\* lines 238-239 / 257-258: "if not isinstance(x, list): x = [x]"
Normalize(q) == IF ~q.isList THEN <<q.str>> ELSE q.items

\* soup.select(selector), for a type selector: the elements with that tag,
\* in document order
Select(soup, selector) ==
    LET Hit(n) == n.tag = selector IN SelectSeq(soup, Hit)

\* item.text of a bs4 element: its text, '' when it has none
Bs4Text(n) == IF n.text = NoText THEN "" ELSE n.text

\* tree.xpath(xpath): elements for //tag, attribute strings for //tag/@href,
\* text strings for //tag/text(); strings carry no .text attribute
XPath(t, xpath) ==
    LET Tag == CASE xpath \in {"//p", "//p/text()"} -> "p"
                 [] xpath \in {"//a", "//a/@href"} -> "a"
                 [] OTHER -> "h1"
        Elem(n) == [isElement |-> TRUE, text |-> n.text, value |-> "none"]
        HrefOf(n) == [isElement |-> FALSE, text |-> "none", value |-> n.href]
        TextOf(n) == [isElement |-> FALSE, text |-> "none", value |-> n.text]
        IsTag(n) == n.tag = Tag
        HasHref(n) == n.tag = Tag /\ n.href # NoAttr
        HasText(n) == n.tag = Tag /\ n.text # NoText
        Hrefs == SelectSeq(t, HasHref)
        Texts == SelectSeq(t, HasText)
        Elems == SelectSeq(t, IsTag)
    IN CASE xpath = "//a/@href" -> [i \in DOMAIN Hrefs |-> HrefOf(Hrefs[i])]
         [] xpath = "//p/text()" -> [i \in DOMAIN Texts |-> TextOf(Texts[i])]
         [] OTHER -> [i \in DOMAIN Elems |-> Elem(Elems[i])]

\* line 259: item.text if hasattr(item, 'text') else item; the text of an
\* lxml element without text is None
LxmlItem(item) ==
    IF item.isElement
    THEN (IF item.text = NoText THEN None ELSE item.text)
    ELSE item.value

\* Bs4Scraper.get_data (lines 238-240)
Bs4GetData(soup, selectors) ==
    LET sels == Normalize(selectors)
        One(sel) == LET hits == Select(soup, sel)
                    IN [j \in DOMAIN hits |-> Bs4Text(hits[j])]
    IN [i \in DOMAIN sels |-> One(sels[i])]

\* LxmlScraper.get_data (lines 257-259)
LxmlGetData(t, xpaths) ==
    LET xps == Normalize(xpaths)
        One(xp) == LET hits == XPath(t, xp)
                   IN [j \in DOMAIN hits |-> LxmlItem(hits[j])]
    IN [i \in DOMAIN xps |-> One(xps[i])]

\* the two classes that define get_data
ExtractClasses == {"Bs4Scraper", "LxmlScraper"}

\* self.soup / self.tree before __init__ has assigned it
NoTree == "NoTree"

NoScraper == [cls |-> "none", pc |-> "none", doc |-> <<>>]

\* what a caller hands to the get_data of class c
QueriesFor(c) ==
    IF c = "Bs4Scraper" THEN QueriesOver(Selectors) ELSE QueriesOver(XPaths)

\* the statement of __init__ after super().__init__ (lines 230, 249):
\* Bs4Scraper parses http_request.response.content into self.soup;
\* LxmlScraper reads http_request.content, which raises AttributeError
\* before self.tree is assigned, and no object reaches the caller
ParseDocument ==
    /\ scraper.pc = "fetched"
    /\ IF InitRaises(scraper.cls)
       THEN /\ scraper' = [scraper EXCEPT !.pc = "raised"]
            /\ tree' = tree
       ELSE /\ scraper' = [scraper EXCEPT !.pc = "built"]
            /\ tree' = scraper.doc
    /\ UNCHANGED <<query, result, notExtract>>

\* get_data called on the scraper the construction returned
GetData ==
    /\ scraper.pc = "built"
    /\ result' = IF scraper.cls = "Bs4Scraper"
                 THEN [engine |-> "bs4", query |-> query,
                       out |-> Bs4GetData(tree, query)]
                 ELSE [engine |-> "lxml", query |-> query,
                       out |-> LxmlGetData(tree, query)]
    /\ UNCHANGED <<scraper, tree, query, notExtract>>

NextExtract ==
    \/ ParseDocument
    \/ GetData

\* a scraper of either class whose page was fetched (line 34), and the
\* argument its caller will give to get_data
InitExtract ==
    /\ scraper \in [cls : ExtractClasses, pc : {"fetched"}, doc : Docs]
    /\ tree = NoTree
    /\ query \in QueriesFor(scraper.cls)
    /\ result = [engine |-> "none", query |-> NoQuery, out |-> <<>>]

InitExtractIdle ==
    /\ scraper = NoScraper
    /\ tree = NoTree
    /\ query = NoQuery
    /\ result = [engine |-> "none", query |-> NoQuery, out |-> <<>>]

----------------------------------------------------------------------------
(* A facade object after its construction: save_data_to_db and db_handler *)

MaxLifeOps == 2       \* calls made on facade objects in one run

MaxLifeData == 1      \* length of the data given to a facade's save_data_to_db

\* every construction request allocates at most one object
ObjIds == 1..MaxRequests

\* the rows are told apart by the object that wrote them, not by their data
LifeValues == {"x"}

\* the address every lifecycle request is made with: the sink's behaviour
\* does not read the address
LifeURLs == {"urlA"}

LifeSeqs == UNION {[1..n -> LifeValues] : n \in 0..MaxLifeData}

\* the objects the single caller holds: built, registered, and no
\* construction request is under way
Held ==
    {i \in DOMAIN objs :
        /\ objs[i].ready
        /\ instances[objs[i].cls] = i
        /\ \A t \in active : thr[t].pc \in {"idle", "returned", "raised"}}

\* self.db_handler of object i, as a PostgresHandler
HandlerOf(i) ==
    [cursorOpen |-> objs[i].db = "open", connOpen |-> objs[i].db = "open", ops |-> 0]

\* the rows committed through object i
RowsBy(rs, i) == {k \in DOMAIN rs : rs[k].by = i}

\* save_data_to_db on object i (lines 200-203); without a db_handler
\* attribute the first use of self.db_handler raises AttributeError
FacadeSave(i, data, table, fails) ==
    /\ i \in Held
    /\ life.ops < MaxLifeOps
    /\ fails \subseteq DOMAIN data
    /\ life' = [ops |-> life.ops + 1]
    /\ IF objs[i].db = "none"
       THEN /\ save' = [data |-> data, fails |-> fails, attempted |-> 0,
                        failed |-> TRUE, raised |-> TRUE, reported |-> FALSE,
                        before |-> Len(rows), obj |-> i]
            /\ UNCHANGED <<rows, objs>>
       ELSE LET r == WriteLoop(HandlerOf(i), table, data, fails, 1, <<>>) IN
            /\ rows' = rows \o [k \in DOMAIN r.rows |->
                                   [table |-> r.rows[k].table,
                                    data |-> r.rows[k].data, by |-> i]]
            /\ objs' = IF r.raised
                       THEN objs
                       ELSE [objs EXCEPT ![i].db =
                                IF Closed(HandlerOf(i)).cursorOpen THEN "open"
                                ELSE "closed"]
            /\ save' = [data |-> data, fails |-> fails, attempted |-> r.attempted,
                        failed |-> r.raised, raised |-> r.raised,
                        reported |-> FALSE, before |-> Len(rows), obj |-> i]
    /\ UNCHANGED <<instances, thr, active, sink, sessionVars, storeVars,
                   extractVars, keysVars>>

\* db_handler.execute_query called on object i's handler
FacadeExecute(i, table, v, fail) ==
    /\ i \in Held
    /\ objs[i].db # "none"
    /\ life.ops < MaxLifeOps
    /\ life' = [ops |-> life.ops + 1]
    /\ rows' = IF ExecFails(HandlerOf(i), IF fail THEN {1} ELSE {}, 1)
               THEN rows
               ELSE Append(rows, [table |-> table, data |-> v, by |-> i])
    /\ UNCHANGED <<facadeVars, sink, save, sessionVars, storeVars, extractVars,
                   keysVars>>

\* db_handler.close called on object i's handler
FacadeClose(i) ==
    /\ i \in Held
    /\ objs[i].db # "none"
    /\ life.ops < MaxLifeOps
    /\ life' = [ops |-> life.ops + 1]
    /\ objs' = [objs EXCEPT ![i].db =
                   IF Closed(HandlerOf(i)).cursorOpen THEN "open" ELSE "closed"]
    /\ UNCHANGED <<instances, thr, active, sinkVars, sessionVars, storeVars,
                   extractVars, keysVars>>

\* open(save_path, 'wb') and file.write (lines 63-64)
FileOutcomes == {"ok", "OpenFails", "WriteFails"}

\* http_request.download_file called on object i (lines 57-65): the fetched
\* response is written to save_path; there is no try/except, an OSError of
\* open or write goes to the caller
HttpDownloadFile(i, p, o) ==
    /\ i \in Held
    /\ life.ops < MaxLifeOps
    /\ life' = [ops |-> life.ops + 1]
    /\ files' = [files EXCEPT ![p] = FileAfter(@, objs[i].response, o)]
    /\ dl' = [handler |-> "http", url |-> objs[i].response, path |-> p,
              outcome |-> o, before |-> files[p], reported |-> FALSE,
              raised |-> IF o = "ok" THEN "none" ELSE "OSError"]
    /\ UNCHANGED <<facadeVars, sess, sinkVars, storeVars, extractVars, keysVars>>

InitLife == life = [ops |-> 0]

NextLife ==
    \/ \E t \in Threads, c \in Classes, u \in LifeURLs, db \in BOOLEAN :
          Call(t, c, u, db)
    \/ \E t \in Threads, o \in Outcomes : Get1(t, o)
    \/ \E t \in Threads, o \in Outcomes : Get2(t, o)
    \/ \E t \in Threads, conn \in ConnectOutcomes : InitRest(t, conn)
    \/ \E t \in Threads : Store(t)
    \/ \E t \in Threads : Return(t)
    \/ \E i \in ObjIds, d \in LifeSeqs, tb \in Tables,
          f \in SUBSET (1..MaxLifeData) : FacadeSave(i, d, tb, f)
    \/ \E i \in ObjIds, tb \in Tables, v \in LifeValues, f \in BOOLEAN :
          FacadeExecute(i, tb, v, f)
    \/ \E i \in ObjIds : FacadeClose(i)

\* construction requests of one caller, and the page of a returned object
\* saved to a file
NextPage ==
    \/ \E t \in Threads, c \in Classes, u \in URLs : Call(t, c, u, FALSE)
    \/ \E t \in Threads, o \in Outcomes : Get1(t, o)
    \/ \E t \in Threads, o \in Outcomes : Get2(t, o)
    \/ \E t \in Threads : InitRest(t, "ok")
    \/ \E t \in Threads : Store(t)
    \/ \E t \in Threads : Return(t)
    \/ \E i \in ObjIds, p \in Paths, o \in FileOutcomes : HttpDownloadFile(i, p, o)

----------------------------------------------------------------------------

InitFacade ==
    /\ instances = [c \in Classes |-> NoObj]
    /\ objs = <<>>
    /\ thr = [t \in Threads |-> IdleThread]

Init ==
    /\ InitFacade
    /\ active = Threads
    /\ InitSession
    /\ InitSink
    /\ InitStore
    /\ InitExtractIdle
    /\ InitKeys
    /\ InitLife

InitSeq ==
    /\ InitFacade
    /\ active = {1}
    /\ InitSession
    /\ InitSink
    /\ InitStore
    /\ InitExtractIdle
    /\ InitKeys
    /\ InitLife

Next ==
    \/ \E t \in Threads, c \in Classes, u \in URLs : Call(t, c, u, FALSE)
    \/ \E t \in Threads, o \in Outcomes : Get1(t, o)
    \/ \E t \in Threads, o \in Outcomes : Get2(t, o)
    \/ \E t \in Threads : InitRest(t, "ok")
    \/ \E t \in Threads : Store(t)
    \/ \E t \in Threads : Return(t)

Spec == Init /\ [][Next]_vars

SpecSeq == InitSeq /\ [][Next]_vars

SpecSession == Init /\ [][NextSession]_vars

SpecSink == Init /\ [][NextSink]_vars

SpecStore == Init /\ [][NextStore]_vars

SpecLife == InitSeq /\ [][NextLife]_vars

SpecPage == InitSeq /\ [][NextPage]_vars

SpecKeys == Init /\ [][NextKeys]_vars

InitGetData ==
    /\ InitFacade
    /\ active = Threads
    /\ InitSession
    /\ InitSink
    /\ InitStore
    /\ InitExtract
    /\ InitKeys
    /\ InitLife

SpecExtract == InitGetData /\ [][NextExtract]_vars

----------------------------------------------------------------------------
(* Claims on the registry and the fetch *)

\* the threads whose last construction request for class c, url u returned
ReturnedFor(c, u) ==
    {t \in Threads : thr[t].pc = "returned" /\ thr[t].cls = c /\ thr[t].url = u}

\* C1: under concurrent construction requests for one class and one
\* configuration, at most one fetch/parse sequence completes and every
\* thread receives the same instance.
C1_OneConstructionPerConfiguration ==
    \A c \in Classes, u \in URLs :
        /\ Cardinality(Built(c, u)) <= 1
        /\ \A t1, t2 \in ReturnedFor(c, u) : thr[t1].ret = thr[t2].ret

\* C2: in a single thread, a construction request whose arguments equal those
\* of an earlier successful construction goes straight to returning that
\* instance: no transport call, no new object, no parse.
C2_SecondRequestReuses ==
    \A t \in Threads :
        thr[t].had # {} =>
            /\ thr[t].pc \in {"ret", "returned"}
            /\ thr[t].calls = <<>>
            /\ thr[t].obj = NoObj
            /\ thr[t].pc = "returned" => thr[t].ret \in thr[t].had

C2_Witness ==
    \E t \in Threads :
        /\ thr[t].pc = "returned"
        /\ thr[t].had # {}
        /\ thr[t].ret \in thr[t].had
        /\ thr[t].nreq = 2

\* C3: the instance a construction request returns was built for that
\* request's own configuration and holds the document fetched for it.
C3_InstanceHoldsOwnDocument ==
    \A t \in Threads :
        thr[t].pc = "returned" =>
            /\ objs[thr[t].ret].url = thr[t].url
            /\ objs[thr[t].ret].response = thr[t].url

\* C4: a fetch makes at most two transport calls; the first validates the
\* certificate; a second one is made exactly when the first failed, and it
\* does not validate; a failure of the second is raised to the caller.
C4_FetchRetriesOnceUnverified ==
    \A t \in Threads :
        LET cs == thr[t].calls IN
        /\ Len(cs) <= 2
        /\ Len(cs) >= 1 => cs[1].verify
        /\ Len(cs) = 1 => (IsRequestException(cs[1].outcome) <=> thr[t].pc = "get2")
        /\ Len(cs) = 2 =>
              /\ IsRequestException(cs[1].outcome)
              /\ ~cs[2].verify
              /\ IsRequestException(cs[2].outcome) =>
                    thr[t].pc = "raised" /\ thr[t].exc = cs[2].outcome
        /\ thr[t].exc \in {"ConnectionError", "HTTPError"} =>
              Len(cs) = 2 /\ cs[2].outcome = thr[t].exc

C4_Witness ==
    \E t \in Threads :
        /\ Len(thr[t].calls) = 2
        /\ thr[t].calls[1].outcome = "ConnectionError"
        /\ thr[t].calls[2].outcome = "HTTPError"
        /\ thr[t].pc = "raised"

\* C13: for every facade class, a construction whose fetch succeeded ends
\* with the instance built and registered, parsed for the two scraper
\* variants that parse at construction; it never ends in an error.
C13_FetchedConstructionEndsReady ==
    \A t \in Threads :
        (thr[t].calls # <<>> /\ thr[t].calls[Len(thr[t].calls)].outcome = "ok") =>
            /\ thr[t].pc # "raised"
            /\ thr[t].pc \in {"ret", "returned"} =>
                  /\ objs[thr[t].obj].ready
                  /\ instances[thr[t].cls] # NoObj
                  /\ thr[t].cls \in {"Bs4Scraper", "LxmlScraper"} =>
                        objs[thr[t].obj].parsed

\* C15: a construction that fails, in the fetch or in a later step of
\* __init__, registers nothing: no object of a failed attempt is in the
\* registry, every registered object is fully built, and a request is
\* answered from the registry only with such an object; otherwise it runs
\* its own fetch.
C15_FailedConstructionRegistersNothing ==
    /\ \A c \in Classes :
          instances[c] # NoObj =>
              objs[instances[c]].ready /\ objs[instances[c]].cls = c
    /\ \A t \in Threads :
          /\ thr[t].pc = "raised" =>
                /\ ~objs[thr[t].obj].ready
                /\ \A c \in Classes : instances[c] # thr[t].obj
          /\ (thr[t].pc \in {"ret", "returned"} /\ thr[t].obj = NoObj) =>
                instances[thr[t].cls] # NoObj
          /\ thr[t].pc = "returned" => objs[thr[t].ret].ready

\* a first attempt failed after its fetch, nothing is registered for the
\* class, and the next request for the class is in a fetch of its own
C15_Witness ==
    \E t \in Threads :
        /\ Len(objs) = 2
        /\ objs[1].cls = thr[t].cls
        /\ objs[1].response # NoDoc
        /\ ~objs[1].ready
        /\ instances[thr[t].cls] = NoObj
        /\ thr[t].nreq = 2
        /\ thr[t].pc = "get2"
        /\ thr[t].obj = 2

\* C11: once the sink of a facade object is closed it stays closed and no
\* further row is committed through that object, whatever is called next:
\* save_data_to_db, the handler's own methods, or a construction request of
\* the same class that returns the object.
C11_ClosedSinkStaysClosed ==
    [][\A i \in DOMAIN objs :
          objs[i].db = "closed" =>
              /\ objs'[i].db = "closed"
              /\ RowsBy(rows', i) = RowsBy(rows, i)]_vars

\* the object's sink was closed by a batch write, a second request for the
\* class returned the same object, and a write through it then failed
C11_Witness ==
    \E t \in Threads :
        /\ thr[t].pc = "returned"
        /\ thr[t].nreq = 2
        /\ thr[t].obj = NoObj
        /\ objs[thr[t].ret].db = "closed"
        /\ save.failed
        /\ save.data # <<>>
        /\ save.obj = thr[t].ret
        /\ RowsBy(rows, thr[t].ret) = {1}

----------------------------------------------------------------------------
(* Claims on SessionRequestHandler *)

\* C5: after a successful login, once the with-scope has been exited, by a
\* normal return or by an error raised inside it, the session is closed.
C5_SessionClosedAfterExit ==
    (sess.pc = "exited" /\ sess.loggedIn) => ~sess.open

C5_Witness ==
    /\ sess.pc = "exited"
    /\ sess.loggedIn
    /\ sess.exc = "BodyError"
    /\ ~sess.open

\* C10: download_file never raises to its caller: on a failed GET or a
\* failed local write the error is reported, no file is left at save_path
\* by the failed call, and the scope goes on to later downloads.
C10_DownloadNeverRaises ==
    (dl.handler = "session" /\ dl.outcome # "ok") =>
        /\ dl.raised = "none"
        /\ dl.reported
        /\ files[dl.path] = dl.before

\* C12: the session's connection is released on every exit path of the
\* with statement, the rejected login at scope entry included.
C12_ReleasedOnEveryExitPath ==
    sess.pc \in {"exited", "enterFailed"} => ~sess.open

----------------------------------------------------------------------------
(* Claims on save_data_to_db *)

\* C6: when the write of one value fails inside save_data_to_db, the rows
\* written before it stay committed, the failure is reported and not raised
\* to the caller, and the remaining values are still attempted.
C6_WriteAllReportsAndContinues ==
    save.failed =>
        /\ Len(rows) >= save.before + (save.attempted - 1)
        /\ ~save.raised
        /\ save.reported
        /\ save.attempted = Len(save.data)

----------------------------------------------------------------------------
(* Claims on JsonHandler *)

\* the synthetic keys as the callers of the store write them
SyntheticKeys == <<"key_0", "key_1", "key_2", "key_3", "key_4">>

\* C7: after data_to_json(s) the keys present are exactly
\* key_0 .. key_{len(s)-1}, whatever earlier calls stored.
C7_IngestReplacesSyntheticRange ==
    ingest.n > 0 =>
        DOMAIN json_data = {SyntheticKeys[i] : i \in 1..Len(ingest.last)}

\* C8: after data_to_json of a sequence of length n, get_data_from_json_key
\* of key_i is the i-th element for every 0 <= i < n, and of a key that is
\* not in the store it is None.
C8_GetReturnsIngested ==
    got.key # "none" =>
        /\ \A i \in 1..Len(ingest.last) :
              got.key = SyntheticKeys[i] => got.val = ingest.last[i]
        /\ got.key \notin DOMAIN json_data => got.val = None

C8_Witness ==
    /\ ingest.last = <<"a", "b", "a">>
    /\ got.key = "key_1"
    /\ got.val = "b"

\* C14: get_data_from_keys never raises: for every key path and every store
\* content reached by data_to_json it returns a value, None when a key of
\* the path is absent or the value before it is no mapping.
C14_LookupNeverRaises ==
    lookup.done => ~lookup.raised

----------------------------------------------------------------------------
(* Claims on get_data *)

\* the elements of the document that the i-th query of the last get_data
\* call selects, by position
MatchesOf(q) ==
    {j \in DOMAIN tree :
        \/ q \in {"p", "//p"} /\ tree[j].tag = "p"
        \/ q \in {"a", "//a"} /\ tree[j].tag = "a"
        \/ q = "//a/@href" /\ tree[j].tag = "a" /\ tree[j].href = "h"
        \/ q = "//p/text()" /\ tree[j].tag = "p" /\ tree[j].text = "t"}

\* get_data returned one sub-list per query, in query order, a single
\* string counting as one query, and an empty sub-list where nothing matched
OneSubListPerQuery ==
    LET q == result.query
        n == IF q.isList THEN Len(q.items) ELSE 1
        Query(i) == IF q.isList THEN q.items[i] ELSE q.str
    IN /\ Len(result.out) = n
       /\ \A i \in 1..n :
             /\ Len(result.out[i]) = Cardinality(MatchesOf(Query(i)))
             /\ MatchesOf(Query(i)) = {} => result.out[i] = <<>>

\* C9: for either variant, an extraction over a fetched page does not end
\* in an error, and get_data on a list of n queries returns n sub-lists in
\* query order, a single string counts as a one-element list, and a query
\* without a match gives an empty sub-list.
C9_OneSubListPerQuery ==
    /\ scraper.pc # "raised"
    /\ result.engine # "none" => OneSubListPerQuery

====
